---- MODULE Spec2Model ----
(***************************************************************************)
(* State-machine model of the account / authentication backend             *)
(* (backend/app): signup, login, bearer-token identity resolution and the  *)
(* role-gated user operations, over the users table.                       *)
(*                                                                         *)
(* Strings the code inspects character by character (passwords, token      *)
(* subjects) are sequences of one-character strings.  Optional[str] is a   *)
(* string with the value Null; Optional[User] is a record with NoUser.     *)
(* The audit timestamps of a row and the request throttle (slowapi,        *)
(* disabled by settings.TESTING) are not part of the model.                *)
(***************************************************************************)
EXTENDS FiniteSets, Integers, Sequences, TLC

VARIABLES users, next_id, issued, now, resp, pending

vars == <<users, next_id, issued, now, resp, pending>>

(***************************************************************************)
(* Bounds of the model.                                                    *)
(***************************************************************************)
MaxId == 2
MaxIssued == 1

(***************************************************************************)
(* Program constants.                                                      *)
(***************************************************************************)
MIN_PASSWORD_LENGTH == 8
ACCESS_TOKEN_EXPIRE_MINUTES == 30
HTTP_200_OK == 200
HTTP_400_BAD_REQUEST == 400
HTTP_401_UNAUTHORIZED == 401
HTTP_403_FORBIDDEN == 403
HTTP_404_NOT_FOUND == 404
HTTP_422_UNPROCESSABLE_ENTITY == 422
HTTP_500_INTERNAL_SERVER_ERROR == 500

Null == "<null>"

(***************************************************************************)
(* Characters.                                                             *)
(***************************************************************************)
UpperCase == {"A","B","C","D","E","F","G","H","I","J","K","L","M",
              "N","O","P","Q","R","S","T","U","V","W","X","Y","Z"}
LowerCase == {"a","b","c","d","e","f","g","h","i","j","k","l","m",
              "n","o","p","q","r","s","t","u","v","w","x","y","z"}
Digits == {"0","1","2","3","4","5","6","7","8","9"}
Whitespace == {" "}

\* Characters outside ASCII, one of each kind, written by their code point:
\* an upper-case letter, a lower-case letter and a decimal digit
NonAscii == {"U+00C9", "U+00E9", "U+0663"}

\* re's \d on a str pattern matches every Unicode decimal digit
DecimalDigits == Digits \cup {"U+0663"}

DigitValue(c) ==
    CASE c = "0" -> 0 [] c = "1" -> 1 [] c = "2" -> 2 [] c = "3" -> 3
      [] c = "4" -> 4 [] c = "5" -> 5 [] c = "6" -> 6 [] c = "7" -> 7
      [] c = "8" -> 8 [] c = "9" -> 9

DigitChar(d) ==
    CASE d = 0 -> "0" [] d = 1 -> "1" [] d = 2 -> "2" [] d = 3 -> "3"
      [] d = 4 -> "4" [] d = 5 -> "5" [] d = 6 -> "6" [] d = 7 -> "7"
      [] d = 8 -> "8" [] d = 9 -> "9"

(***************************************************************************)
(* str(user.id): the decimal digits of a positive id.                      *)
(***************************************************************************)
RECURSIVE StrOfInt(_)
StrOfInt(n) ==
    IF n < 10 THEN <<DigitChar(n)>>
    ELSE Append(StrOfInt(n \div 10), DigitChar(n % 10))

(***************************************************************************)
(* int(token_data.sub): surrounding whitespace is dropped, one sign is     *)
(* allowed, the rest must be a non-empty run of digits; anything else      *)
(* raises ValueError.                                                      *)
(***************************************************************************)
RECURSIVE LStrip(_)
LStrip(s) ==
    IF s # <<>> /\ Head(s) \in Whitespace THEN LStrip(Tail(s)) ELSE s

RECURSIVE RStrip(_)
RStrip(s) ==
    IF s # <<>> /\ s[Len(s)] \in Whitespace
    THEN RStrip(SubSeq(s, 1, Len(s) - 1)) ELSE s

Strip(s) == RStrip(LStrip(s))

Unsigned(s) ==
    IF s # <<>> /\ Head(s) \in {"+", "-"} THEN Tail(s) ELSE s

IntParses(s) ==
    LET d == Unsigned(Strip(s))
    IN  d # <<>> /\ \A i \in 1..Len(d) : d[i] \in Digits

RECURSIVE DigitsValue(_)
DigitsValue(d) ==
    IF d = <<>> THEN 0
    ELSE 10 * DigitsValue(SubSeq(d, 1, Len(d) - 1)) + DigitValue(d[Len(d)])

IntOfStr(s) ==
    LET t == Strip(s)
        v == DigitsValue(Unsigned(t))
    IN  IF Head(t) = "-" THEN 0 - v ELSE v

(***************************************************************************)
(* Password policy (core/password_validator.py).                           *)
(***************************************************************************)
ERR_LENGTH == "Password must be at least 8 characters long"
ERR_UPPER == "Password must contain at least one uppercase letter"
ERR_LOWER == "Password must contain at least one lowercase letter"
ERR_DIGIT == "Password must contain at least one number"

HasChar(password, class) == \E i \in 1..Len(password) : password[i] \in class

validate_password(password) ==
    (IF Len(password) < MIN_PASSWORD_LENGTH THEN <<ERR_LENGTH>> ELSE <<>>)
    \o (IF ~HasChar(password, UpperCase) THEN <<ERR_UPPER>> ELSE <<>>)
    \o (IF ~HasChar(password, LowerCase) THEN <<ERR_LOWER>> ELSE <<>>)
    \o (IF ~HasChar(password, DecimalDigits) THEN <<ERR_DIGIT>> ELSE <<>>)

\* validate_password_or_raise: TRUE when PasswordValidationError is raised
PasswordValidationError(password) == validate_password(password) # <<>>

(***************************************************************************)
(* Credential hasher (core/security.py).  A digest is the pair of the      *)
(* fresh salt and the password it was derived from; it is a record, never  *)
(* equal to a plaintext, and only verify_password looks inside it.         *)
(***************************************************************************)
Salts == {"s1", "s2"}

get_password_hash(password, salt) == [salt |-> salt, pw |-> password]

verify_password(plain_password, hashed_password) ==
    hashed_password.pw = plain_password

NoHash == [salt |-> Null, pw |-> <<>>]

(***************************************************************************)
(* Token codec: core/security.py create_access_token and jose jwt.decode   *)
(* as called by get_current_user.  A token is its header algorithm, the    *)
(* key that signed it and its claims; fmt tells a well-formed JWT from an  *)
(* arbitrary string and from an absent Authorization header.               *)
(***************************************************************************)
SECRET_KEY == "SECRET_KEY"
ALGORITHM == "HS256"

\* The claims of a token.  A token carries its claims and, as signed, the
\* claims its signature was computed over
Claims(has_sub, sub, exp) == [has_sub |-> has_sub, sub |-> sub, exp |-> exp]

NoToken ==
    [fmt |-> "none", alg |-> Null, key |-> Null, has_sub |-> FALSE,
     sub |-> <<>>, exp |-> 0, signed |-> Claims(FALSE, <<>>, 0)]

GarbageToken ==
    [fmt |-> "garbage", alg |-> Null, key |-> Null, has_sub |-> FALSE,
     sub |-> <<>>, exp |-> 0, signed |-> Claims(FALSE, <<>>, 0)]

jwt_encode(has_sub, sub, exp, key, alg) ==
    [fmt |-> "jwt", alg |-> alg, key |-> key, has_sub |-> has_sub,
     sub |-> sub, exp |-> exp, signed |-> Claims(has_sub, sub, exp)]

\* The signature of the token does not cover the claims it carries
SignatureMismatch(token) ==
    token.signed # Claims(token.has_sub, token.sub, token.exp)

create_access_token(subject, expires_delta, t) ==
    jwt_encode(TRUE, subject, t + expires_delta, SECRET_KEY, ALGORITHM)

\* Mutant: decoder that takes a token for expired half its lifetime early
JWTError_early_expiry(token, key, algorithms, t) ==
    \/ token.fmt # "jwt"
    \/ token.alg \notin algorithms
    \/ token.key # key
    \/ SignatureMismatch(token)
    \/ token.exp < t + (ACCESS_TOKEN_EXPIRE_MINUTES \div 2) + 1

\* Mutant: decoder that does not look at the expiry
JWTError_never_expires(token, key, algorithms, t) ==
    \/ token.fmt # "jwt"
    \/ token.alg \notin algorithms
    \/ token.key # key
    \/ SignatureMismatch(token)

\* Mutant: decoder that reads the claims without verifying the signature
JWTError_unverified_signature(token, key, algorithms, t) ==
    \/ token.fmt # "jwt"
    \/ token.alg \notin algorithms
    \/ token.exp < t

\* jwt.decode(token, key, algorithms=[...]) raises JWTError
JWTError(token, key, algorithms, t) ==
    \/ token.fmt # "jwt"
    \/ token.alg \notin algorithms
    \/ token.key # key
    \/ SignatureMismatch(token)
    \/ token.exp < t

(***************************************************************************)
(* The users table (models/user.py) and its lookups (crud).                *)
(***************************************************************************)
NoUser ==
    [id |-> 0, email |-> Null, username |-> Null, full_name |-> Null,
     hashed_password |-> NoHash, is_active |-> FALSE, is_superuser |-> FALSE]

get(table, id) ==
    IF \E u \in table : u.id = id
    THEN CHOOSE u \in table : u.id = id ELSE NoUser

get_by_email(table, email) ==
    IF \E u \in table : u.email = email
    THEN CHOOSE u \in table : u.email = email ELSE NoUser

get_by_username(table, username) ==
    IF \E u \in table : u.username = username
    THEN CHOOSE u \in table : u.username = username ELSE NoUser

get_multi(table) == table

\* Mutant: authenticate that finds active accounts only
authenticate_active_only(table, email, password) ==
    LET user == get_by_email(table, email)
    IN  IF user = NoUser \/ ~user.is_active THEN NoUser
        ELSE IF ~verify_password(password, user.hashed_password) THEN NoUser
        ELSE user

authenticate(table, email, password) ==
    LET user == get_by_email(table, email)
    IN  IF user = NoUser THEN NoUser
        ELSE IF ~verify_password(password, user.hashed_password) THEN NoUser
        ELSE user

\* Columns declared NOT NULL and the two UNIQUE columns: a commit that
\* breaks one raises IntegrityError and writes nothing.
\* Mutant: a table whose email and username columns accept NULL
NotNullColumns_nullable_credentials == {"hashed_password", "is_active"}

NotNullColumns == {"email", "username", "hashed_password", "is_active"}

\* Mutant: a table without the unique indexes
UniqueViolation_unenforced(table, row) == FALSE

UniqueViolation(table, row) ==
    \E u \in table :
        /\ u.id # row.id
        /\ (u.email = row.email \/ u.username = row.username)

(***************************************************************************)
(* Identity resolver chain (api/deps.py).  An outcome is the status and    *)
(* detail of the raised HTTPException, or status 200 and the account.      *)
(***************************************************************************)
MSG_NOT_AUTHENTICATED == "Not authenticated"
MSG_CREDENTIALS == "Could not validate credentials"
MSG_INACTIVE == "Inactive user"
MSG_PRIVILEGES == "The user doesn't have enough privileges"
MSG_LOGIN == "Incorrect email or password"
MSG_DUP_EMAIL == "A user with this email already exists"
MSG_DUP_USERNAME == "A user with this username already exists"
MSG_CURRENT_PASSWORD == "Incorrect current password"
MSG_NOT_FOUND == "User not found"
MSG_INTERNAL == "Internal Server Error"
MSG_STRING_TYPE == "Input should be a valid string"

Raise(status, message) ==
    [status |-> status, detail |-> <<message>>, user |-> NoUser]

Resolved(user) == [status |-> HTTP_200_OK, detail |-> <<>>, user |-> user]

credentials_exception == Raise(HTTP_401_UNAUTHORIZED, MSG_CREDENTIALS)

InternalError == Raise(HTTP_500_INTERNAL_SERVER_ERROR, MSG_INTERNAL)

\* OAuth2PasswordBearer: no bearer token in the request
oauth2_scheme(token) ==
    IF token.fmt = "none"
    THEN Raise(HTTP_401_UNAUTHORIZED, MSG_NOT_AUTHENTICATED)
    ELSE Resolved(NoUser)

\* Mutant: an expired token is told apart from the other failures
get_current_user_reports_expiry(table, token, t) ==
    IF oauth2_scheme(token).status # HTTP_200_OK THEN oauth2_scheme(token)
    ELSE IF token.fmt = "jwt" /\ token.exp < t
         THEN Raise(HTTP_401_UNAUTHORIZED, "Token has expired")
    ELSE IF JWTError(token, SECRET_KEY, {ALGORITHM}, t)
         THEN credentials_exception
    ELSE IF ~token.has_sub THEN credentials_exception
    ELSE IF ~IntParses(token.sub) THEN InternalError
    ELSE IF get(table, IntOfStr(token.sub)) = NoUser
         THEN credentials_exception
    ELSE Resolved(get(table, IntOfStr(token.sub)))

\* Mutant: a subject without an account is reported as not found
get_current_user_not_found(table, token, t) ==
    IF oauth2_scheme(token).status # HTTP_200_OK THEN oauth2_scheme(token)
    ELSE IF JWTError(token, SECRET_KEY, {ALGORITHM}, t)
         THEN credentials_exception
    ELSE IF ~token.has_sub THEN credentials_exception
    ELSE IF ~IntParses(token.sub) THEN InternalError
    ELSE IF get(table, IntOfStr(token.sub)) = NoUser
         THEN Raise(HTTP_404_NOT_FOUND, MSG_NOT_FOUND)
    ELSE Resolved(get(table, IntOfStr(token.sub)))

get_current_user(table, token, t) ==
    IF oauth2_scheme(token).status # HTTP_200_OK THEN oauth2_scheme(token)
    ELSE IF JWTError(token, SECRET_KEY, {ALGORITHM}, t)
         THEN credentials_exception
    ELSE IF ~token.has_sub THEN credentials_exception
    ELSE IF ~IntParses(token.sub) THEN InternalError
    ELSE IF get(table, IntOfStr(token.sub)) = NoUser
         THEN credentials_exception
    ELSE Resolved(get(table, IntOfStr(token.sub)))

\* Mutant: active resolver that lets an inactive account through
get_current_active_user_allows_inactive(table, token, t) ==
    get_current_user(table, token, t)

get_current_active_user(table, token, t) ==
    LET current == get_current_user(table, token, t)
    IN  IF current.status # HTTP_200_OK THEN current
        ELSE IF ~current.user.is_active
             THEN Raise(HTTP_400_BAD_REQUEST, MSG_INACTIVE)
        ELSE current

\* Mutant: admin resolver that does not look at the role
get_current_superuser_any_role(table, token, t) ==
    get_current_user(table, token, t)

get_current_superuser(table, token, t) ==
    LET current == get_current_user(table, token, t)
    IN  IF current.status # HTTP_200_OK THEN current
        ELSE IF ~current.user.is_superuser
             THEN Raise(HTTP_403_FORBIDDEN, MSG_PRIVILEGES)
        ELSE current

(***************************************************************************)
(* Requests and responses.  One record shape serves every operation; the   *)
(* fields an operation does not take keep their defaults.  fields_set is   *)
(* the set of fields the request body carries (pydantic's exclude_unset),  *)
(* nulls those it carries as JSON null.                                    *)
(***************************************************************************)
PatchFields == {"email", "username", "full_name", "password", "is_active"}

Request(op) ==
    [op |-> op, tok |-> NoToken, email |-> Null, username |-> Null,
     full_name |-> Null, password |-> <<>>, is_active |-> TRUE,
     is_superuser |-> FALSE, fields_set |-> {}, nulls |-> {},
     current_password |-> <<>>, user_id |-> 0]

\* schemas.UserCreate: email and username are required strings; a body that
\* holds null for one is refused before the handler runs
RequestValidationError(body) == body.email = Null \/ body.username = Null

\* schemas.UserCreate: a field the body leaves out takes the default of
\* UserBase, whatever the slot of the record holds
UserCreate(body) ==
    LET Given(f) == f \in body.fields_set
    IN  [body EXCEPT
            !.full_name = IF Given("full_name") THEN @ ELSE Null,
            !.is_active = IF Given("is_active") THEN @ ELSE TRUE,
            !.is_superuser = IF Given("is_superuser") THEN @ ELSE FALSE]

\* Mutant: an update schema that declares is_superuser
UserUpdate_with_role(body) ==
    [body EXCEPT
        !.fields_set = @ \cap (PatchFields \cup {"is_superuser"}),
        !.nulls = @ \cap (PatchFields \cup {"is_superuser"})]

\* schemas.UserUpdate: a field of the body the schema does not declare is
\* ignored
UserUpdate(body) ==
    [body EXCEPT
        !.fields_set = @ \cap PatchFields,
        !.nulls = @ \cap PatchFields]

(***************************************************************************)
(* crud/user.py and crud/base.py: create, update, delete.  Each yields     *)
(* the raised error ("" when none), the row and the table after commit.    *)
(***************************************************************************)
CrudResult(error, row, table) == [error |-> error, row |-> row, table |-> table]

\* Mutant: create that stores the default flags whatever the candidate says
CRUDUser_create_default_flags(table, id, obj_in, salt) ==
    IF PasswordValidationError(obj_in.password)
    THEN CrudResult("PasswordValidationError", NoUser, table)
    ELSE LET db_obj ==
                 [id |-> id, email |-> obj_in.email,
                  username |-> obj_in.username,
                  full_name |-> obj_in.full_name,
                  hashed_password |-> get_password_hash(obj_in.password, salt),
                  is_active |-> TRUE,
                  is_superuser |-> FALSE]
         IN  IF UniqueViolation(table, db_obj)
             THEN CrudResult("IntegrityError", NoUser, table)
             ELSE CrudResult("", db_obj, table \cup {db_obj})

\* Mutant: create that stores the password without validating it
CRUDUser_create_unvalidated(table, id, obj_in, salt) ==
    LET db_obj ==
            [id |-> id, email |-> obj_in.email,
             username |-> obj_in.username,
             full_name |-> obj_in.full_name,
             hashed_password |-> get_password_hash(obj_in.password, salt),
             is_active |-> obj_in.is_active,
             is_superuser |-> obj_in.is_superuser]
    IN  IF UniqueViolation(table, db_obj)
        THEN CrudResult("IntegrityError", NoUser, table)
        ELSE CrudResult("", db_obj, table \cup {db_obj})

CRUDUser_create(table, id, obj_in, salt) ==
    IF PasswordValidationError(obj_in.password)
    THEN CrudResult("PasswordValidationError", NoUser, table)
    ELSE LET db_obj ==
                 [id |-> id, email |-> obj_in.email,
                  username |-> obj_in.username,
                  full_name |-> obj_in.full_name,
                  hashed_password |-> get_password_hash(obj_in.password, salt),
                  is_active |-> obj_in.is_active,
                  is_superuser |-> obj_in.is_superuser]
         IN  IF UniqueViolation(table, db_obj)
             THEN CrudResult("IntegrityError", NoUser, table)
             ELSE CrudResult("", db_obj, table \cup {db_obj})

\* The value update_data holds for a field of the patch
PatchValue(obj_in, field) ==
    CASE field = "email" -> obj_in.email
      [] field = "username" -> obj_in.username
      [] field = "full_name" -> obj_in.full_name
      [] field = "is_active" -> obj_in.is_active
      [] field = "is_superuser" -> obj_in.is_superuser

\* Mutant: update that writes every field of the schema, set or not
CRUDBase_update_all_fields(table, db_obj, update_data, hashed_password) ==
    LET row ==
            [id |-> db_obj.id,
             email |-> update_data.email,
             username |-> update_data.username,
             full_name |-> update_data.full_name,
             hashed_password |->
                 IF "hashed_password" \in update_data.fields_set
                 THEN hashed_password ELSE db_obj.hashed_password,
             is_active |-> update_data.is_active,
             is_superuser |-> db_obj.is_superuser]
    IN  IF UniqueViolation(table, row)
        THEN CrudResult("IntegrityError", db_obj, table)
        ELSE CrudResult("", row, (table \ {db_obj}) \cup {row})

\* CRUDBase.update: setattr for every column of the row named in update_data
CRUDBase_update(table, db_obj, update_data, hashed_password) ==
    LET Carries(f) == f \in update_data.fields_set
        Value(f, old) ==
            IF ~Carries(f) THEN old
            ELSE IF f \in update_data.nulls
            THEN (IF f \in {"email", "username"} THEN Null ELSE old)
            ELSE PatchValue(update_data, f)
        row ==
            [id |-> db_obj.id,
             email |-> Value("email", db_obj.email),
             username |-> Value("username", db_obj.username),
             full_name |->
                 IF Carries("full_name") /\ "full_name" \in update_data.nulls
                 THEN Null ELSE Value("full_name", db_obj.full_name),
             hashed_password |->
                 IF Carries("hashed_password") THEN hashed_password
                 ELSE db_obj.hashed_password,
             is_active |-> Value("is_active", db_obj.is_active),
             is_superuser |-> Value("is_superuser", db_obj.is_superuser)]
        null_in_not_null ==
            \E f \in NotNullColumns : Carries(f) /\ f \in update_data.nulls
    IN  IF null_in_not_null \/ UniqueViolation(table, row)
        THEN CrudResult("IntegrityError", db_obj, table)
        ELSE CrudResult("", row, (table \ {db_obj}) \cup {row})

\* Mutant: update that hashes the new password without validating it
CRUDUser_update_skips_validation(table, db_obj, obj_in, salt) ==
    IF "password" \in obj_in.fields_set
    THEN IF "password" \in obj_in.nulls
         THEN CrudResult("TypeError", db_obj, table)
         ELSE CRUDBase_update(
                  table, db_obj,
                  [obj_in EXCEPT
                      !.fields_set = (@ \ {"password"}) \cup {"hashed_password"}],
                  get_password_hash(obj_in.password, salt))
    ELSE CRUDBase_update(table, db_obj, obj_in, NoHash)

\* Mutant: update that writes the other fields before validating the password
CRUDUser_update_validates_after_write(table, db_obj, obj_in, salt) ==
    IF "password" \in obj_in.fields_set
    THEN IF "password" \in obj_in.nulls
         THEN CrudResult("TypeError", db_obj, table)
         ELSE IF PasswordValidationError(obj_in.password)
         THEN CrudResult(
                  "PasswordValidationError", db_obj,
                  CRUDBase_update(
                      table, db_obj,
                      [obj_in EXCEPT !.fields_set = @ \ {"password"}],
                      NoHash).table)
         ELSE CRUDBase_update(
                  table, db_obj,
                  [obj_in EXCEPT
                      !.fields_set = (@ \ {"password"}) \cup {"hashed_password"}],
                  get_password_hash(obj_in.password, salt))
    ELSE CRUDBase_update(table, db_obj, obj_in, NoHash)

\* Mutant: update that validates the new password and then drops it
CRUDUser_update_drops_password(table, db_obj, obj_in, salt) ==
    IF "password" \in obj_in.fields_set
    THEN IF "password" \in obj_in.nulls
         THEN CrudResult("TypeError", db_obj, table)
         ELSE IF PasswordValidationError(obj_in.password)
         THEN CrudResult("PasswordValidationError", db_obj, table)
         ELSE CRUDBase_update(
                  table, db_obj,
                  [obj_in EXCEPT !.fields_set = @ \ {"password"}], NoHash)
    ELSE CRUDBase_update(table, db_obj, obj_in, NoHash)

CRUDUser_update(table, db_obj, obj_in, salt) ==
    IF "password" \in obj_in.fields_set
    THEN IF "password" \in obj_in.nulls
         THEN CrudResult("TypeError", db_obj, table)
         ELSE IF PasswordValidationError(obj_in.password)
         THEN CrudResult("PasswordValidationError", db_obj, table)
         ELSE CRUDBase_update(
                  table, db_obj,
                  [obj_in EXCEPT
                      !.fields_set = (@ \ {"password"}) \cup {"hashed_password"}],
                  get_password_hash(obj_in.password, salt))
    ELSE CRUDBase_update(table, db_obj, obj_in, NoHash)

\* Mutant: delete that returns the record without committing its removal
CRUDBase_delete_uncommitted(table, id) ==
    CrudResult("", get(table, id), table)

CRUDBase_delete(table, id) ==
    LET obj == get(table, id)
    IN  IF obj # NoUser THEN CrudResult("", obj, table \ {obj})
        ELSE CrudResult("", NoUser, table)

(***************************************************************************)
(* schemas.User, the response model: the row without its hash.             *)
(***************************************************************************)
schemas_User(row) ==
    [id |-> row.id, email |-> row.email, username |-> row.username,
     full_name |-> row.full_name, is_active |-> row.is_active,
     is_superuser |-> row.is_superuser]

NoBody == schemas_User(NoUser)

Ok(caller, body, access_token, table) ==
    [status |-> HTTP_200_OK, detail |-> <<>>, caller |-> caller,
     user |-> body, access_token |-> access_token, table |-> table]

Rejected(r, table) ==
    [status |-> r.status, detail |-> r.detail, caller |-> NoUser,
     user |-> NoBody, access_token |-> NoToken, table |-> table]

Failed(status, detail, caller, table) ==
    [status |-> status, detail |-> detail, caller |-> caller,
     user |-> NoBody, access_token |-> NoToken, table |-> table]

Crashed(caller, table) ==
    Failed(HTTP_500_INTERNAL_SERVER_ERROR, <<MSG_INTERNAL>>, caller, table)

Response(req, out) ==
    [req |-> req, status |-> out.status, detail |-> out.detail,
     caller |-> out.caller, user |-> out.user,
     access_token |-> out.access_token]

(***************************************************************************)
(* Endpoints (api/v1/endpoints/auth.py, users.py).                         *)
(***************************************************************************)
\* Mutant: login without the active check
login_skips_active_check(table, t, form_data) ==
    LET user == authenticate(table, form_data.email, form_data.password)
    IN  IF user = NoUser
        THEN Failed(HTTP_401_UNAUTHORIZED, <<MSG_LOGIN>>, NoUser, table)
        ELSE Ok(NoUser, NoBody,
                create_access_token(StrOfInt(user.id),
                                    ACCESS_TOKEN_EXPIRE_MINUTES, t),
                table)

\* Mutant: login that looks at the active flag before the password
login_checks_active_first(table, t, form_data) ==
    LET found == get_by_email(table, form_data.email)
        user == authenticate(table, form_data.email, form_data.password)
    IN  IF found # NoUser /\ ~found.is_active
        THEN Failed(HTTP_400_BAD_REQUEST, <<MSG_INACTIVE>>, NoUser, table)
        ELSE IF user = NoUser
        THEN Failed(HTTP_401_UNAUTHORIZED, <<MSG_LOGIN>>, NoUser, table)
        ELSE Ok(NoUser, NoBody,
                create_access_token(StrOfInt(user.id),
                                    ACCESS_TOKEN_EXPIRE_MINUTES, t),
                table)

login(table, t, form_data) ==
    LET user == authenticate(table, form_data.email, form_data.password)
    IN  IF user = NoUser
        THEN Failed(HTTP_401_UNAUTHORIZED, <<MSG_LOGIN>>, NoUser, table)
        ELSE IF ~user.is_active
        THEN Failed(HTTP_400_BAD_REQUEST, <<MSG_INACTIVE>>, NoUser, table)
        ELSE Ok(NoUser, NoBody,
                create_access_token(StrOfInt(user.id),
                                    ACCESS_TOKEN_EXPIRE_MINUTES, t),
                table)

test_token(table, t, req) ==
    LET r == get_current_user(table, req.tok, t)
    IN  IF r.status # HTTP_200_OK THEN Rejected(r, table)
        ELSE Ok(r.user, schemas_User(r.user), NoToken, table)

read_user_me(table, t, req) ==
    LET r == get_current_active_user(table, req.tok, t)
    IN  IF r.status # HTTP_200_OK THEN Rejected(r, table)
        ELSE Ok(r.user, schemas_User(r.user), NoToken, table)

\* `if user_in.email` / `if user_in.username`: set, not None, not empty
Truthy(user_in, field) ==
    /\ field \in user_in.fields_set
    /\ field \notin user_in.nulls
    /\ PatchValue(user_in, field) # ""

update_user_me(table, t, user_in, salt) ==
    LET r == get_current_active_user(table, user_in.tok, t)
        current_user == r.user
        res == CRUDUser_update(table, current_user, user_in, salt)
    IN  IF r.status # HTTP_200_OK THEN Rejected(r, table)
        ELSE IF /\ Truthy(user_in, "email")
                /\ user_in.email # current_user.email
                /\ get_by_email(table, user_in.email) # NoUser
        THEN Failed(HTTP_400_BAD_REQUEST, <<MSG_DUP_EMAIL>>, current_user, table)
        ELSE IF /\ Truthy(user_in, "username")
                /\ user_in.username # current_user.username
                /\ get_by_username(table, user_in.username) # NoUser
        THEN Failed(HTTP_400_BAD_REQUEST, <<MSG_DUP_USERNAME>>, current_user,
                    table)
        ELSE IF res.error # "" THEN Crashed(current_user, res.table)
        ELSE Ok(current_user, schemas_User(res.row), NoToken, res.table)

\* Mutant: password change that does not verify the current password
change_password_skips_current(table, t, password_change, salt) ==
    LET r == get_current_active_user(table, password_change.tok, t)
        current_user == r.user
        user_update ==
            [Request("UserUpdate") EXCEPT
                !.fields_set = {"password"},
                !.password = password_change.password]
        res == CRUDUser_update(table, current_user, user_update, salt)
    IN  IF r.status # HTTP_200_OK THEN Rejected(r, table)
        ELSE IF res.error = "PasswordValidationError"
        THEN Failed(HTTP_400_BAD_REQUEST,
                    validate_password(password_change.password),
                    current_user, res.table)
        ELSE IF res.error # "" THEN Crashed(current_user, res.table)
        ELSE Ok(current_user, NoBody, NoToken, res.table)

\* Mutant: password change that writes the account with id 1, whoever calls
change_password_first_account(table, t, password_change, salt) ==
    LET r == get_current_active_user(table, password_change.tok, t)
        current_user == r.user
        user_update ==
            [Request("UserUpdate") EXCEPT
                !.fields_set = {"password"},
                !.password = password_change.password]
        res == CRUDUser_update(table, get(table, 1), user_update, salt)
    IN  IF r.status # HTTP_200_OK THEN Rejected(r, table)
        ELSE IF ~verify_password(password_change.current_password,
                                 current_user.hashed_password)
        THEN Failed(HTTP_400_BAD_REQUEST, <<MSG_CURRENT_PASSWORD>>,
                    current_user, table)
        ELSE IF res.error = "PasswordValidationError"
        THEN Failed(HTTP_400_BAD_REQUEST,
                    validate_password(password_change.password),
                    current_user, res.table)
        ELSE IF res.error # "" THEN Crashed(current_user, res.table)
        ELSE Ok(current_user, NoBody, NoToken, res.table)

change_password(table, t, password_change, salt) ==
    LET r == get_current_active_user(table, password_change.tok, t)
        current_user == r.user
        user_update ==
            [Request("UserUpdate") EXCEPT
                !.fields_set = {"password"},
                !.password = password_change.password]
        res == CRUDUser_update(table, current_user, user_update, salt)
    IN  IF r.status # HTTP_200_OK THEN Rejected(r, table)
        ELSE IF ~verify_password(password_change.current_password,
                                 current_user.hashed_password)
        THEN Failed(HTTP_400_BAD_REQUEST, <<MSG_CURRENT_PASSWORD>>,
                    current_user, table)
        ELSE IF res.error = "PasswordValidationError"
        THEN Failed(HTTP_400_BAD_REQUEST,
                    validate_password(password_change.password),
                    current_user, res.table)
        ELSE IF res.error # "" THEN Crashed(current_user, res.table)
        ELSE Ok(current_user, NoBody, NoToken, res.table)

\* Mutant: signup that looks the username up before the email
create_user_signup_username_first(table, id, user_in, salt) ==
    LET res == CRUDUser_create(table, id, user_in, salt)
    IN  IF get_by_username(table, user_in.username) # NoUser
        THEN Failed(HTTP_400_BAD_REQUEST, <<MSG_DUP_USERNAME>>, NoUser, table)
        ELSE IF get_by_email(table, user_in.email) # NoUser
        THEN Failed(HTTP_400_BAD_REQUEST, <<MSG_DUP_EMAIL>>, NoUser, table)
        ELSE IF res.error = "PasswordValidationError"
        THEN Failed(HTTP_400_BAD_REQUEST, validate_password(user_in.password),
                    NoUser, res.table)
        ELSE IF res.error # "" THEN Crashed(NoUser, res.table)
        ELSE Ok(NoUser, schemas_User(res.row), NoToken, res.table)

create_user_signup(table, id, user_in, salt) ==
    LET res == CRUDUser_create(table, id, user_in, salt)
    IN  IF get_by_email(table, user_in.email) # NoUser
        THEN Failed(HTTP_400_BAD_REQUEST, <<MSG_DUP_EMAIL>>, NoUser, table)
        ELSE IF get_by_username(table, user_in.username) # NoUser
        THEN Failed(HTTP_400_BAD_REQUEST, <<MSG_DUP_USERNAME>>, NoUser, table)
        ELSE IF res.error = "PasswordValidationError"
        THEN Failed(HTTP_400_BAD_REQUEST, validate_password(user_in.password),
                    NoUser, res.table)
        ELSE IF res.error # "" THEN Crashed(NoUser, res.table)
        ELSE Ok(NoUser, schemas_User(res.row), NoToken, res.table)

read_user_by_id(table, t, req) ==
    LET r == get_current_active_user(table, req.tok, t)
        user == get(table, req.user_id)
    IN  IF r.status # HTTP_200_OK THEN Rejected(r, table)
        ELSE IF user = NoUser
        THEN Failed(HTTP_404_NOT_FOUND, <<MSG_NOT_FOUND>>, r.user, table)
        ELSE Ok(r.user, schemas_User(user), NoToken, table)

read_users(table, t, req) ==
    LET r == get_current_superuser(table, req.tok, t)
    IN  IF r.status # HTTP_200_OK THEN Rejected(r, table)
        ELSE Ok(r.user, NoBody, NoToken, table)

delete_user(table, t, req) ==
    LET r == get_current_superuser(table, req.tok, t)
        user == get(table, req.user_id)
        res == CRUDBase_delete(table, req.user_id)
    IN  IF r.status # HTTP_200_OK THEN Rejected(r, table)
        ELSE IF user = NoUser
        THEN Failed(HTTP_404_NOT_FOUND, <<MSG_NOT_FOUND>>, r.user, table)
        ELSE Ok(r.user, schemas_User(res.row), NoToken, res.table)

(***************************************************************************)
(* The inputs requests are drawn from.                                     *)
(***************************************************************************)
Emails == {"a@x.com", "b@x.com"}
Usernames == {"alice", "bob"}

PW_GOOD == <<"P","a","s","s","w","o","r","d","1">>
PW_OTHER == <<"A","b","c","d","e","f","g","1">>
PW_WEAK == <<"p","a","s","s","w","o","r","d","1","2","3">>
PW_SHORT == <<"1","2">>

\* An expiry beyond every instant the clock of the model reaches
FAR_FUTURE == (MaxIssued + 2) * (ACCESS_TOKEN_EXPIRE_MINUTES + 1)

WrongKeyToken ==
    jwt_encode(TRUE, <<"1">>, FAR_FUTURE, "wrong_secret_key", ALGORITHM)
WrongAlgToken == jwt_encode(TRUE, <<"1">>, FAR_FUTURE, SECRET_KEY, "HS512")
ExpiredToken == jwt_encode(TRUE, <<"1">>, -1, SECRET_KEY, ALGORITHM)
NoSubjectToken == jwt_encode(FALSE, <<>>, FAR_FUTURE, SECRET_KEY, ALGORITHM)
WordSubjectToken ==
    jwt_encode(TRUE, <<"a","b","c">>, FAR_FUTURE, SECRET_KEY, ALGORITHM)
EmptySubjectToken == jwt_encode(TRUE, <<>>, FAR_FUTURE, SECRET_KEY, ALGORITHM)
PaddedSubjectToken ==
    jwt_encode(TRUE, <<" ","1">>, FAR_FUTURE, SECRET_KEY, ALGORITHM)

\* Tokens altered after signing: one issued for another subject, one expired
AlteredSubjectToken ==
    [jwt_encode(TRUE, <<"2">>, FAR_FUTURE, SECRET_KEY, ALGORITHM)
        EXCEPT !.sub = <<"1">>]
AlteredExpiryToken == [ExpiredToken EXCEPT !.exp = FAR_FUTURE]

CraftedTokens ==
    {NoToken, GarbageToken, WrongKeyToken, WrongAlgToken, ExpiredToken,
     NoSubjectToken, WordSubjectToken, EmptySubjectToken, PaddedSubjectToken,
     AlteredSubjectToken, AlteredExpiryToken}

Candidate(e, n, f, p, a, s) ==
    [Request("signup") EXCEPT
        !.email = e, !.username = n, !.full_name = f, !.password = p,
        !.is_active = a, !.is_superuser = s,
        !.fields_set = {"email", "username", "full_name", "password",
                        "is_active", "is_superuser"}]

\* The body without some of its optional fields
Without(body, fields) == [body EXCEPT !.fields_set = @ \ fields]

Patch(fields, nulls) ==
    [Request("update_user_me") EXCEPT !.fields_set = fields, !.nulls = nulls]

SetActive(a) == [Patch({"is_active"}, {}) EXCEPT !.is_active = a]
SetEmail(e) == [Patch({"email"}, {}) EXCEPT !.email = e]
SetUsername(n) == [Patch({"username"}, {}) EXCEPT !.username = n]
SetFullName(f) == [Patch({"full_name"}, {}) EXCEPT !.full_name = f]
SetSuperuser(s) == [Patch({"is_superuser"}, {}) EXCEPT !.is_superuser = s]
SetPassword(p) == [Patch({"password"}, {}) EXCEPT !.password = p]

(***************************************************************************)
(* The state machine: one action per endpoint, each a whole request, with  *)
(* the sets its inputs are drawn from as parameters.                       *)
(***************************************************************************)
NoResponse ==
    [req |-> Request("none"), status |-> 0, detail |-> <<>>,
     caller |-> NoUser, user |-> NoBody, access_token |-> NoToken]

\* Requests in flight: each worker is idle or between two statements of a
\* handler, holding the request and the row its session has loaded
Workers == {"w1", "w2"}

Idle ==
    [pc |-> "idle", req |-> Request("none"), current_user |-> NoUser,
     obj |-> NoUser]

Init ==
    /\ users = {}
    /\ next_id = 1
    /\ issued = {}
    /\ now = 0
    /\ resp = NoResponse
    /\ pending = [w \in Workers |-> Idle]

\* A handler that only reads, or whose writes are in out.table
Serve(req, out) ==
    /\ users' = out.table
    /\ resp' = Response(req, out)
    /\ UNCHANGED pending

Signup(candidates, salts) ==
    \E body \in candidates, salt \in salts :
        LET out == IF RequestValidationError(body)
                   THEN Failed(HTTP_422_UNPROCESSABLE_ENTITY,
                               <<MSG_STRING_TYPE>>, NoUser, users)
                   ELSE create_user_signup(users, next_id, UserCreate(body),
                                           salt)
        IN  /\ out.status = HTTP_200_OK => next_id <= MaxId
            /\ Serve(body, out)
            /\ next_id' = IF out.status = HTTP_200_OK
                          THEN next_id + 1 ELSE next_id
            /\ UNCHANGED <<issued, now>>

\* Login while the tokens in circulation stay within a limit
LoginUpTo(emails, passwords, limit) ==
    \E e \in emails, p \in passwords :
        LET form_data == [Request("login") EXCEPT !.email = e, !.password = p]
            out == login(users, now, form_data)
            tokens == IF out.status = HTTP_200_OK
                      THEN issued \cup {out.access_token} ELSE issued
        IN  /\ Cardinality(tokens) <= limit
            /\ Serve(form_data, out)
            /\ issued' = tokens
            /\ UNCHANGED <<next_id, now>>

Login(emails, passwords) == LoginUpTo(emails, passwords, MaxIssued)

TestToken(tokens) ==
    \E tok \in tokens :
        LET req == [Request("test_token") EXCEPT !.tok = tok]
        IN  /\ Serve(req, test_token(users, now, req))
            /\ UNCHANGED <<next_id, issued, now>>

ReadUserMe(tokens) ==
    \E tok \in tokens :
        LET req == [Request("read_user_me") EXCEPT !.tok = tok]
        IN  /\ Serve(req, read_user_me(users, now, req))
            /\ UNCHANGED <<next_id, issued, now>>

UpdateUserMe(tokens, patches, salts) ==
    \E tok \in tokens, patch \in patches, salt \in salts :
        LET user_in == [patch EXCEPT !.tok = tok]
        IN  /\ Serve(user_in,
                     update_user_me(users, now, UserUpdate(user_in), salt))
            /\ UNCHANGED <<next_id, issued, now>>

ChangePassword(tokens, currents, news, salts) ==
    \E tok \in tokens, cur \in currents, new \in news, salt \in salts :
        LET req == [Request("change_password") EXCEPT
                       !.tok = tok, !.current_password = cur, !.password = new]
        IN  /\ Serve(req, change_password(users, now, req, salt))
            /\ UNCHANGED <<next_id, issued, now>>

ReadUserById(tokens, ids) ==
    \E tok \in tokens, id \in ids :
        LET req == [Request("read_user_by_id") EXCEPT !.tok = tok, !.user_id = id]
        IN  /\ Serve(req, read_user_by_id(users, now, req))
            /\ UNCHANGED <<next_id, issued, now>>

ReadUsers(tokens) ==
    \E tok \in tokens :
        LET req == [Request("read_users") EXCEPT !.tok = tok]
        IN  /\ Serve(req, read_users(users, now, req))
            /\ UNCHANGED <<next_id, issued, now>>

DeleteUser(tokens, ids) ==
    \E tok \in tokens, id \in ids :
        LET req == [Request("delete_user") EXCEPT !.tok = tok, !.user_id = id]
        IN  /\ Serve(req, delete_user(users, now, req))
            /\ UNCHANGED <<next_id, issued, now>>

\* The clock advances past one token lifetime.  Only while an issued token
\* is still unexpired: after that the passing of time changes no outcome.
\* resp is the response to a request served at the instant now, so it is
\* dropped when the clock moves.
Tick ==
    /\ \E token \in issued : ~(token.exp < now)
    /\ now' = now + ACCESS_TOKEN_EXPIRE_MINUTES + 1
    /\ resp' = NoResponse
    /\ UNCHANGED <<users, next_id, issued, pending>>

\* The clock moves by some minutes while a token in circulation is unexpired
Pass(minutes) ==
    \E m \in minutes :
        /\ \E token \in issued : ~(token.exp < now)
        /\ now' = now + m
        /\ resp' = NoResponse
        /\ UNCHANGED <<users, next_id, issued, pending>>

(***************************************************************************)
(* The same handlers statement by statement.  Every await on the session   *)
(* is a step of its own, so other requests run between a handler's lookups *)
(* and its commit.  A handler's first statement runs as the request        *)
(* arrives.                                                                *)
(***************************************************************************)
Await(w, pc, req, current_user) ==
    /\ pending' = [pending EXCEPT
                      ![w] = [pc |-> pc, req |-> req,
                              current_user |-> current_user, obj |-> NoUser]]
    /\ UNCHANGED <<users, resp>>

Finish(w, req, out) ==
    /\ users' = out.table
    /\ resp' = Response(req, out)
    /\ pending' = [pending EXCEPT ![w] = Idle]

\* create_user_signup: get_by_email
SignupLookupEmail(candidates) ==
    \E w \in Workers, body \in candidates :
      LET user_in == UserCreate(body) IN
        /\ pending[w].pc = "idle"
        /\ IF get_by_email(users, user_in.email) # NoUser
           THEN Finish(w, user_in,
                       Failed(HTTP_400_BAD_REQUEST, <<MSG_DUP_EMAIL>>, NoUser,
                              users))
           ELSE Await(w, "signup_username", user_in, NoUser)
        /\ UNCHANGED <<next_id, issued, now>>

\* create_user_signup: get_by_username
SignupLookupUsername ==
    \E w \in Workers :
        LET user_in == pending[w].req
        IN  /\ pending[w].pc = "signup_username"
            /\ IF get_by_username(users, user_in.username) # NoUser
               THEN Finish(w, user_in,
                           Failed(HTTP_400_BAD_REQUEST, <<MSG_DUP_USERNAME>>,
                                  NoUser, users))
               ELSE Await(w, "signup_create", user_in, NoUser)
            /\ UNCHANGED <<next_id, issued, now>>

\* create_user_signup: crud_user.create, add and commit
SignupCreate(salts) ==
    \E w \in Workers, salt \in salts :
        LET user_in == pending[w].req
            res == CRUDUser_create(users, next_id, user_in, salt)
            out == IF res.error = "PasswordValidationError"
                   THEN Failed(HTTP_400_BAD_REQUEST,
                               validate_password(user_in.password), NoUser,
                               users)
                   ELSE IF res.error # "" THEN Crashed(NoUser, users)
                   ELSE Ok(NoUser, schemas_User(res.row), NoToken, res.table)
        IN  /\ pending[w].pc = "signup_create"
            /\ out.status = HTTP_200_OK => next_id <= MaxId
            /\ Finish(w, user_in, out)
            /\ next_id' = IF out.status = HTTP_200_OK
                          THEN next_id + 1 ELSE next_id
            /\ UNCHANGED <<issued, now>>

\* update_user_me: the resolver chain loads current_user
UpdateResolve(tokens, patches) ==
    \E w \in Workers, tok \in tokens, patch \in patches :
        LET user_in == UserUpdate([patch EXCEPT !.tok = tok])
            r == get_current_active_user(users, tok, now)
        IN  /\ pending[w].pc = "idle"
            /\ IF r.status # HTTP_200_OK
               THEN Finish(w, user_in, Rejected(r, users))
               ELSE Await(w, "update_email", user_in, r.user)
            /\ UNCHANGED <<next_id, issued, now>>

\* update_user_me: get_by_email when the email changes
UpdateLookupEmail ==
    \E w \in Workers :
        LET user_in == pending[w].req
            current_user == pending[w].current_user
        IN  /\ pending[w].pc = "update_email"
            /\ IF /\ Truthy(user_in, "email")
                  /\ user_in.email # current_user.email
                  /\ get_by_email(users, user_in.email) # NoUser
               THEN Finish(w, user_in,
                           Failed(HTTP_400_BAD_REQUEST, <<MSG_DUP_EMAIL>>,
                                  current_user, users))
               ELSE Await(w, "update_username", user_in, current_user)
            /\ UNCHANGED <<next_id, issued, now>>

\* update_user_me: get_by_username when the username changes
UpdateLookupUsername ==
    \E w \in Workers :
        LET user_in == pending[w].req
            current_user == pending[w].current_user
        IN  /\ pending[w].pc = "update_username"
            /\ IF /\ Truthy(user_in, "username")
                  /\ user_in.username # current_user.username
                  /\ get_by_username(users, user_in.username) # NoUser
               THEN Finish(w, user_in,
                           Failed(HTTP_400_BAD_REQUEST, <<MSG_DUP_USERNAME>>,
                                  current_user, users))
               ELSE Await(w, "update_write", user_in, current_user)
            /\ UNCHANGED <<next_id, issued, now>>

\* Mutant: a commit that writes every column the patch names, changed or not
UpdateWrite_every_field(salts) ==
    \E w \in Workers, salt \in salts :
        LET user_in == pending[w].req
            current_user == pending[w].current_user
            modified == user_in.fields_set
            row == get(users, current_user.id)
            res == CRUDUser_update(users, row,
                                   [user_in EXCEPT !.fields_set = modified],
                                   salt)
            out == IF row = NoUser \/ res.error # ""
                   THEN Crashed(current_user, users)
                   ELSE Ok(current_user, schemas_User(res.row), NoToken,
                           res.table)
        IN  /\ pending[w].pc = "update_write"
            /\ Finish(w, user_in, out)
            /\ UNCHANGED <<next_id, issued, now>>

\* update_user_me: crud_user.update.  setattr marks the attributes whose
\* value differs from the loaded one; commit writes those columns of the row
UpdateWrite(salts) ==
    \E w \in Workers, salt \in salts :
        LET user_in == pending[w].req
            current_user == pending[w].current_user
            modified ==
                {f \in user_in.fields_set :
                    \/ f = "password"
                    \/ f \in user_in.nulls
                    \/ PatchValue(user_in, f) # current_user[f]}
            row == get(users, current_user.id)
            res == CRUDUser_update(users, row,
                                   [user_in EXCEPT !.fields_set = modified],
                                   salt)
            out == IF row = NoUser \/ res.error # ""
                   THEN Crashed(current_user, users)
                   ELSE Ok(current_user, schemas_User(res.row), NoToken,
                           res.table)
        IN  /\ pending[w].pc = "update_write"
            /\ Finish(w, user_in, out)
            /\ UNCHANGED <<next_id, issued, now>>

\* delete_user: the resolver chain loads current_user
DeleteResolve(tokens, ids) ==
    \E w \in Workers, tok \in tokens, id \in ids :
        LET req == [Request("delete_user") EXCEPT !.tok = tok, !.user_id = id]
            r == get_current_superuser(users, tok, now)
        IN  /\ pending[w].pc = "idle"
            /\ IF r.status # HTTP_200_OK
               THEN Finish(w, req, Rejected(r, users))
               ELSE Await(w, "delete_get", req, r.user)
            /\ UNCHANGED <<next_id, issued, now>>

\* delete_user: crud.user.get, 404 when the id names no row
DeleteGet ==
    \E w \in Workers :
        LET req == pending[w].req
            current_user == pending[w].current_user
        IN  /\ pending[w].pc = "delete_get"
            /\ IF get(users, req.user_id) = NoUser
               THEN Finish(w, req,
                           Failed(HTTP_404_NOT_FOUND, <<MSG_NOT_FOUND>>,
                                  current_user, users))
               ELSE Await(w, "delete_crud_get", req, current_user)
            /\ UNCHANGED <<next_id, issued, now>>

\* CRUDBase.delete: self.get.  When the row is gone by now it returns None,
\* which the handler returns and the response model refuses
DeleteCrudGet ==
    \E w \in Workers :
        LET req == pending[w].req
            current_user == pending[w].current_user
            obj == get(users, req.user_id)
        IN  /\ pending[w].pc = "delete_crud_get"
            /\ IF obj = NoUser
               THEN Finish(w, req, Crashed(current_user, users))
               ELSE /\ pending' = [pending EXCEPT
                                      ![w] = [pc |-> "delete_commit",
                                              req |-> req,
                                              current_user |-> current_user,
                                              obj |-> obj]]
                    /\ UNCHANGED <<users, resp>>
            /\ UNCHANGED <<next_id, issued, now>>

\* CRUDBase.delete: db.delete(obj) and commit, then return obj.  The DELETE
\* names the row by its id; when it matches no row the commit still passes
DeleteCommit ==
    \E w \in Workers :
        LET req == pending[w].req
            current_user == pending[w].current_user
            obj == pending[w].obj
            table == {u \in users : u.id # obj.id}
        IN  /\ pending[w].pc = "delete_commit"
            /\ Finish(w, req,
                      Ok(current_user, schemas_User(obj), NoToken, table))
            /\ UNCHANGED <<next_id, issued, now>>

(***************************************************************************)
(* Spec: sessions.  Accounts of either activity and role sign up, log in,  *)
(* deactivate or reactivate themselves and are deleted; every gated        *)
(* operation is called with the issued tokens and without a token.         *)
(***************************************************************************)
SessionCandidates ==
    {Candidate("a@x.com", "alice", Null, PW_GOOD, a, s) :
        a \in BOOLEAN, s \in BOOLEAN}
    \cup {Candidate("b@x.com", "bob", Null, PW_GOOD, TRUE, FALSE)}

SessionTokens == issued \cup {NoToken}
SessionPatches ==
    {SetActive(FALSE), SetActive(TRUE), SetSuperuser(FALSE), SetSuperuser(TRUE)}
SessionPasswords == {PW_GOOD, PW_OTHER}
SessionSalts == {"s1"}
Ids == 1..MaxId

Next ==
    \/ Signup(SessionCandidates, SessionSalts)
    \/ Login(Emails, SessionPasswords)
    \/ TestToken(SessionTokens)
    \/ ReadUserMe(SessionTokens)
    \/ UpdateUserMe(SessionTokens, SessionPatches, SessionSalts)
    \/ ChangePassword(SessionTokens, SessionPasswords, {PW_GOOD, PW_WEAK},
                      SessionSalts)
    \/ ReadUserById(SessionTokens, Ids)
    \/ ReadUsers(SessionTokens)
    \/ DeleteUser(SessionTokens, Ids)
    \/ Tick

Spec == Init /\ [][Next]_vars

(***************************************************************************)
(* SpecResolver: the resolver chain.  One elevated account signs up, logs  *)
(* in, deactivates and deletes itself; every gated operation is called     *)
(* with the issued tokens and with every crafted token.                    *)
(***************************************************************************)
ResolverCandidates ==
    {Candidate("a@x.com", "alice", Null, PW_GOOD, TRUE, TRUE)}

ResolverTokens == issued \cup CraftedTokens

NextResolver ==
    \/ Signup(ResolverCandidates, SessionSalts)
    \/ Login({"a@x.com"}, {PW_GOOD})
    \/ TestToken(ResolverTokens)
    \/ ReadUserMe(ResolverTokens)
    \/ UpdateUserMe(ResolverTokens, SessionPatches, SessionSalts)
    \/ ChangePassword(ResolverTokens, {PW_GOOD}, {PW_GOOD}, SessionSalts)
    \/ ReadUserById(ResolverTokens, Ids)
    \/ ReadUsers(ResolverTokens)
    \/ DeleteUser(ResolverTokens, Ids)
    \/ Tick

SpecResolver == Init /\ [][NextResolver]_vars

(***************************************************************************)
(* SpecAccount: credentials.  Accounts sign up with passwords that pass or *)
(* fail the policy, log in, and change email, username and password        *)
(* through self-update and password-change.                                *)
(***************************************************************************)
AccountCandidates ==
    {Candidate(e, n, Null, p, TRUE, FALSE) :
        e \in Emails, n \in Usernames, p \in {PW_GOOD, PW_WEAK, PW_SHORT}}

AccountPatches ==
    {SetPassword(p) : p \in {PW_OTHER, PW_WEAK, PW_SHORT}}
    \cup {Patch({"password"}, {"password"})}
    \cup {SetEmail(e) : e \in Emails}
    \cup {SetUsername(n) : n \in Usernames}
    \cup {[Patch({"email", "password"}, {}) EXCEPT !.email = e, !.password = p] :
            e \in Emails, p \in {PW_OTHER, PW_WEAK}}
    \cup {[Patch({"email", "username"}, {}) EXCEPT !.email = e, !.username = n] :
            e \in Emails, n \in Usernames}

AccountSalts == {"s1", "s2"}

NextAccount ==
    \/ Signup(AccountCandidates, AccountSalts)
    \/ Login(Emails, SessionPasswords)
    \/ UpdateUserMe(SessionTokens, AccountPatches, AccountSalts)
    \/ ChangePassword(SessionTokens, SessionPasswords,
                      {PW_GOOD, PW_OTHER, PW_WEAK, PW_SHORT}, AccountSalts)

SpecAccount == Init /\ [][NextAccount]_vars

(***************************************************************************)
(* SpecSignup: registration.  Candidates with free and held emails and     *)
(* usernames, passwords that pass or fail the policy, and the flags given  *)
(* or left out.                                                            *)
(***************************************************************************)
SignupCandidates ==
    AccountCandidates
    \cup {Candidate(e, "alice", Null, PW_GOOD, a, s) :
            e \in Emails, a \in BOOLEAN, s \in BOOLEAN}
    \cup {Without(Candidate("b@x.com", "bob", "Bob", PW_GOOD, a, s),
                  {"full_name", "is_active", "is_superuser"}) :
            a \in BOOLEAN, s \in BOOLEAN}
    \cup {Without(Candidate("b@x.com", "bob", Null, PW_SHORT, TRUE, FALSE),
                  {"full_name", "is_active", "is_superuser"})}

NextSignup == Signup(SignupCandidates, AccountSalts)

SpecSignup == Init /\ [][NextSignup]_vars

(***************************************************************************)
(* SpecUpdate: partial update.  Two accounts patch themselves with every   *)
(* combination of the fields of UserUpdate, a field at a time given as     *)
(* null, and change their passwords.                                       *)
(***************************************************************************)
UpdateCandidates ==
    {Candidate("a@x.com", "alice", Null, PW_GOOD, TRUE, TRUE),
     Candidate("b@x.com", "carol", "Carol", PW_GOOD, TRUE, FALSE),
     Candidate(Null, "bob", Null, PW_GOOD, TRUE, FALSE),
     Candidate("b@x.com", Null, Null, PW_GOOD, TRUE, FALSE)}

\* Every slot of the body holds a value; fields_set says which are sent
UpdatePatches ==
    {p \in {[Patch(fields, nulls) EXCEPT
                !.email = "b@x.com", !.username = "bob", !.full_name = "Al",
                !.password = PW_OTHER, !.is_active = FALSE] :
               fields \in SUBSET PatchFields,
               nulls \in {{}, {"full_name"}, {"email"}, {"username"}}} :
        /\ p.nulls \subseteq p.fields_set
        /\ \/ Cardinality(p.fields_set) <= 1
           \/ p.fields_set \in {{"email", "username"}, {"username", "password"},
                                {"full_name", "is_active"}}}

NextUpdate ==
    \/ Signup(UpdateCandidates, SessionSalts)
    \/ Login(Emails, SessionPasswords)
    \/ UpdateUserMe(issued, UpdatePatches, SessionSalts)
    \/ ChangePassword(issued, SessionPasswords, {PW_OTHER, PW_WEAK},
                      SessionSalts)

SpecUpdate == Init /\ [][NextUpdate]_vars

(***************************************************************************)
(* SpecToken: the life of a token.  The clock moves in half lifetimes, so  *)
(* a token is checked before, at and after its expiry and two tokens of    *)
(* one account are in circulation together, while the account changes its  *)
(* email, username and password.                                           *)
(***************************************************************************)
TokenCandidates ==
    {Candidate("a@x.com", "alice", Null, PW_GOOD, TRUE, FALSE),
     Candidate("b@x.com", "bob", Null, PW_GOOD, TRUE, FALSE)}

TokenPatches ==
    {SetEmail("b@x.com"), SetUsername("bob"), SetPassword(PW_OTHER)}

HalfLife == ACCESS_TOKEN_EXPIRE_MINUTES \div 2

NextToken ==
    \/ Signup(TokenCandidates, SessionSalts)
    \/ LoginUpTo(Emails, SessionPasswords, MaxIssued + 1)
    \/ TestToken(issued)
    \/ UpdateUserMe(issued, TokenPatches, SessionSalts)
    \/ ChangePassword(issued, {PW_GOOD}, {PW_OTHER}, SessionSalts)
    \/ Pass({HalfLife})

SpecToken == Init /\ [][NextToken]_vars

(***************************************************************************)
(* SpecRace: concurrent signup and self-update.  Two workers run the       *)
(* handlers statement by statement against the same table.                 *)
(***************************************************************************)
RaceCandidates ==
    {Candidate("a@x.com", "alice", Null, PW_GOOD, TRUE, FALSE),
     Candidate("a@x.com", "bob", Null, PW_GOOD, TRUE, FALSE),
     Candidate("b@x.com", "alice", Null, PW_GOOD, TRUE, FALSE)}

RacePatches ==
    {SetEmail("b@x.com"), SetUsername("bob"), SetActive(TRUE), SetActive(FALSE)}

NextRace ==
    \/ SignupLookupEmail(RaceCandidates)
    \/ SignupLookupUsername
    \/ SignupCreate(SessionSalts)
    \/ Login(Emails, {PW_GOOD})
    \/ UpdateResolve(issued, RacePatches)
    \/ UpdateLookupEmail
    \/ UpdateLookupUsername
    \/ UpdateWrite(SessionSalts)

SpecRace == Init /\ [][NextRace]_vars

(***************************************************************************)
(* SpecDelete: admin deletes interleaved.  Accounts sign up and log in,    *)
(* and the delete requests of two workers run statement by statement.      *)
(***************************************************************************)
NextDelete ==
    \/ Signup(SessionCandidates, SessionSalts)
    \/ Login(Emails, {PW_GOOD})
    \/ DeleteResolve(issued, Ids)
    \/ DeleteGet
    \/ DeleteCrudGet
    \/ DeleteCommit

SpecDelete == Init /\ [][NextDelete]_vars

(***************************************************************************)
(* SpecPolicy: the password policy applied to passwords of every length    *)
(* around the minimum, made of ASCII and non-ASCII letters and digits and  *)
(* of a character that is neither.                                         *)
(***************************************************************************)
MaxPasswordLen == 9
MaxSeedLen == 3

\* Passwords that repeat the characters of a short seed
PolicyPasswords ==
    LET alphabet == {"A", "a", "1", "-"} \cup NonAscii
        Repeat(seed, n) == [i \in 1..n |-> seed[((i - 1) % Len(seed)) + 1]]
    IN  {Repeat(seed, n) :
            seed \in UNION {[1..k -> alphabet] : k \in 1..MaxSeedLen},
            n \in (MIN_PASSWORD_LENGTH - 2)..MaxPasswordLen}

\* A password is drawn
InitPolicy ==
    /\ users = {}
    /\ next_id = 1
    /\ issued = {}
    /\ now = 0
    /\ pending = [w \in Workers |-> Idle]
    /\ \E password \in PolicyPasswords :
            resp = [NoResponse EXCEPT !.req.password = password]

\* validate_password is applied to the password drawn
ValidatePassword ==
    /\ resp.req.op = "none"
    /\ resp' = [resp EXCEPT
                    !.req.op = "validate_password",
                    !.detail = validate_password(resp.req.password)]
    /\ UNCHANGED <<users, next_id, issued, now, pending>>

SpecPolicy == InitPolicy /\ [][ValidatePassword]_vars

(***************************************************************************)
(* Vocabulary of the properties.  resp is the response to the last request *)
(* and resp.caller the account the resolver handed to the handler.         *)
(***************************************************************************)
GatedOps ==
    {"test_token", "read_user_me", "update_user_me", "change_password",
     "read_user_by_id", "read_users", "delete_user"}

AdminOps == {"read_users", "delete_user"}

\* The token is signed with the process secret and unexpired at instant t
ValidToken(token, t) == ~JWTError(token, SECRET_KEY, {ALGORITHM}, t)

\* The account a token names in a table (NoUser when it names none)
SubjectIn(table, token) ==
    IF token.has_sub /\ IntParses(token.sub)
    THEN get(table, IntOfStr(token.sub)) ELSE NoUser

Succeeded == resp.status = HTTP_200_OK

InactiveAccount ==
    resp.status = HTTP_400_BAD_REQUEST /\ resp.detail = <<MSG_INACTIVE>>

Unauthenticated == resp.status = HTTP_401_UNAUTHORIZED

Forbidden == resp.status = HTTP_403_FORBIDDEN

\* A step that serves a request of a gated operation
GatedRequest == resp'.req.op \in GatedOps

(***************************************************************************)
(* C1.  A token whose subject account is inactive when the request is      *)
(* made is rejected by every token-gated operation: the operation does not *)
(* succeed, whether or not the account is elevated.                        *)
(* Refuted: test_token, read_users and delete_user resolve the caller      *)
(* without the active check.                                               *)
(***************************************************************************)
C1_InactiveTokenRejected ==
    [][(/\ GatedRequest
        /\ ValidToken(resp'.req.tok, now)
        /\ SubjectIn(users, resp'.req.tok) # NoUser
        /\ ~SubjectIn(users, resp'.req.tok).is_active)
       => resp'.status # HTTP_200_OK]_vars

(***************************************************************************)
(* C2.  For a valid token whose account exists but is inactive, every      *)
(* gated operation, the admin-only ones included, reports InactiveAccount: *)
(* never Unauthenticated, never Forbidden.                                 *)
(* Refuted: get_current_superuser checks the role of an inactive caller.   *)
(***************************************************************************)
C2_InactiveBeforeRole ==
    [][(/\ GatedRequest
        /\ ValidToken(resp'.req.tok, now)
        /\ SubjectIn(users, resp'.req.tok) # NoUser
        /\ ~SubjectIn(users, resp'.req.tok).is_active)
       => (/\ resp'.status = HTTP_400_BAD_REQUEST
           /\ resp'.detail = <<MSG_INACTIVE>>)]_vars

(***************************************************************************)
(* C6.  Login returns a token only when an account with the submitted      *)
(* email exists, the submitted password verifies against its stored hash   *)
(* and the account is active; the subject of the token is that account's   *)
(* id.  Login issues no token for an inactive account.                     *)
(***************************************************************************)
C6_LoginIssuesOnlyForActive ==
    resp.req.op = "login" =>
        LET user == get_by_email(users, resp.req.email)
            token == resp.access_token
        IN  /\ token # NoToken <=> Succeeded
            /\ Succeeded =>
                /\ user # NoUser
                /\ verify_password(resp.req.password, user.hashed_password)
                /\ user.is_active
                /\ token \in issued
                /\ token.has_sub
                /\ token.sub = StrOfInt(user.id)
                /\ IntParses(token.sub) /\ IntOfStr(token.sub) = user.id

\* A login succeeded while an inactive account was in the table
C6_Witness ==
    /\ resp.req.op = "login"
    /\ Succeeded
    /\ resp.access_token \in issued
    /\ \E u \in users : ~u.is_active

(***************************************************************************)
(* C7.  Login with an unknown email and login with a known email and a     *)
(* wrong password yield the same Unauthenticated error; the correct        *)
(* password of an inactive account yields InactiveAccount; a wrong         *)
(* password against an inactive account yields Unauthenticated.            *)
(***************************************************************************)
C7_LoginErrors ==
    resp.req.op = "login" =>
        LET user == get_by_email(users, resp.req.email)
            verifies ==
                verify_password(resp.req.password, user.hashed_password)
            BadCredentials ==
                Unauthenticated /\ resp.detail = <<MSG_LOGIN>>
        IN  /\ user = NoUser => BadCredentials
            /\ (user # NoUser /\ ~verifies) => BadCredentials
            /\ (user # NoUser /\ verifies /\ ~user.is_active)
                   => InactiveAccount

\* A wrong password was submitted for an inactive account
C7_Witness ==
    /\ resp.req.op = "login"
    /\ LET user == get_by_email(users, resp.req.email)
       IN  /\ user # NoUser
           /\ ~user.is_active
           /\ ~verify_password(resp.req.password, user.hashed_password)
    /\ Unauthenticated

(***************************************************************************)
(* C8.  A token issued for an account that has since been deleted, still   *)
(* unexpired, gets Unauthenticated with the uniform message from every     *)
(* token-gated operation: never NotFound, never success.                   *)
(***************************************************************************)
C8_DeletedAccountToken ==
    [][(/\ GatedRequest
        /\ resp'.req.tok \in issued
        /\ ValidToken(resp'.req.tok, now)
        /\ SubjectIn(users, resp'.req.tok) = NoUser)
       => (/\ resp'.status = HTTP_401_UNAUTHORIZED
           /\ resp'.detail = <<MSG_CREDENTIALS>>)]_vars

\* The token of a deleted account, unexpired, was presented to delete_user
C8_Witness ==
    /\ resp.req.op = "delete_user"
    /\ resp.req.tok \in issued
    /\ ValidToken(resp.req.tok, now)
    /\ SubjectIn(users, resp.req.tok) = NoUser
    /\ Unauthenticated

(***************************************************************************)
(* C3.  Every Unauthenticated outcome of the resolver carries the same     *)
(* status and the same message, whatever its cause.                        *)
(* Refuted as stated: a request without a token is answered by the bearer  *)
(* scheme with its own message.                                            *)
(***************************************************************************)
C3_UniformUnauthenticated ==
    (resp.req.op \in GatedOps /\ Unauthenticated)
        => resp.detail = <<MSG_CREDENTIALS>>

(***************************************************************************)
(* C3, amended.  A gated request without a token gets 401 "Not             *)
(* authenticated".  A gated request whose token is malformed, expired,     *)
(* signed with another secret or algorithm, without a subject, or names an *)
(* account that does not exist gets 401 "Could not validate credentials",  *)
(* the same for each of these causes; and no other request gets 401.       *)
(***************************************************************************)
C3_UnauthenticatedMessages ==
    [][GatedRequest =>
        LET token == resp'.req.tok
            Missing == token = NoToken
            Unverifiable ==
                /\ ~Missing
                /\ \/ ~ValidToken(token, now)
                   \/ ~token.has_sub
                   \/ IntParses(token.sub) /\ SubjectIn(users, token) = NoUser
        IN  /\ Missing =>
                /\ resp'.status = HTTP_401_UNAUTHORIZED
                /\ resp'.detail = <<MSG_NOT_AUTHENTICATED>>
            /\ Unverifiable =>
                /\ resp'.status = HTTP_401_UNAUTHORIZED
                /\ resp'.detail = <<MSG_CREDENTIALS>>
            /\ resp'.status = HTTP_401_UNAUTHORIZED
                   => (Missing \/ Unverifiable)]_vars

\* An issued token, expired by the clock, was refused with the uniform message
C3_Witness ==
    /\ resp.req.op \in GatedOps
    /\ resp.req.tok \in issued
    /\ resp.req.tok.exp < now
    /\ Unauthenticated
    /\ resp.detail = <<MSG_CREDENTIALS>>

(***************************************************************************)
(* C4.  A correctly signed, unexpired token whose subject is absent or     *)
(* cannot be parsed as an account id makes the resolver fail with          *)
(* Unauthenticated: no other error kind, no account.                       *)
(* Refuted: int() of an unparsable subject raises outside the try block.   *)
(***************************************************************************)
C4_BadSubjectUnauthenticated ==
    (/\ resp.req.op \in GatedOps
     /\ ValidToken(resp.req.tok, now)
     /\ (~resp.req.tok.has_sub \/ ~IntParses(resp.req.tok.sub)))
        => (/\ Unauthenticated
            /\ resp.detail = <<MSG_CREDENTIALS>>
            /\ resp.caller = NoUser)

(***************************************************************************)
(* C9.  Every password accepted by signup, password-change and self-update *)
(* has passed the policy: the hash of every account was derived from a     *)
(* password of at least 8 characters with an upper-case letter, a          *)
(* lower-case letter and a digit.                                          *)
(***************************************************************************)
PassesPolicy(password) ==
    /\ Len(password) >= 8
    /\ HasChar(password, UpperCase)
    /\ HasChar(password, LowerCase)
    /\ HasChar(password, Digits)

\* The request submits a password for acceptance
CarriesPassword ==
    \/ resp.req.op = "change_password"
    \/ /\ resp.req.op \in {"signup", "update_user_me"}
       /\ "password" \in resp.req.fields_set
       /\ "password" \notin resp.req.nulls

ReachedPolicy ==
    /\ resp.status \notin {HTTP_401_UNAUTHORIZED, HTTP_403_FORBIDDEN}
    /\ resp.detail \notin {<<MSG_INACTIVE>>, <<MSG_DUP_EMAIL>>,
                           <<MSG_DUP_USERNAME>>, <<MSG_CURRENT_PASSWORD>>}

C10_PolicyViolationReported ==
    (/\ CarriesPassword
     /\ PasswordValidationError(resp.req.password)
     /\ ReachedPolicy)
        => (/\ resp.status = HTTP_400_BAD_REQUEST
            /\ resp.detail = validate_password(resp.req.password))

(***************************************************************************)
(* C5.  No two accounts share an email and no two accounts share a         *)
(* username, however concurrent signups and self-updates interleave        *)
(* between their uniqueness lookups and their writes.                      *)
(***************************************************************************)
C5_UniqueEmailAndUsername ==
    \A u \in users, v \in users :
        u.id # v.id => (u.email # v.email /\ u.username # v.username)

\* A write passed its lookups and was then refused by the table: another
\* request had taken the email or the username in between
C5_Witness ==
    /\ resp.req.op \in {"signup", "update_user_me"}
    /\ resp.status = HTTP_500_INTERNAL_SERVER_ERROR
    /\ \E u \in users :
        /\ u.id # resp.caller.id
        /\ \/ "email" \in resp.req.fields_set /\ u.email = resp.req.email
           \/ /\ "username" \in resp.req.fields_set
              /\ u.username = resp.req.username

(***************************************************************************)
(* C11.  A signup or update rejected by the password policy or by a        *)
(* uniqueness check writes nothing: the table is the same after the        *)
(* rejected request as before it, also when the rejected patch carries     *)
(* valid changes to other fields.                                          *)
(***************************************************************************)
WriteOps == {"signup", "update_user_me", "change_password"}

\* The response refuses a duplicate or a policy-violating password
RejectedByCheck(r) ==
    /\ r.req.op \in WriteOps
    /\ r.status # HTTP_200_OK
    /\ \/ r.detail \in {<<MSG_DUP_EMAIL>>, <<MSG_DUP_USERNAME>>}
       \/ /\ \/ r.req.op = "change_password"
             \/ "password" \in r.req.fields_set \ r.req.nulls
          /\ r.detail # <<MSG_CURRENT_PASSWORD>>
          /\ PasswordValidationError(r.req.password)

C11_RejectionWritesNothing ==
    [][RejectedByCheck(resp') => users' = users]_vars

\* A self-update with a free new email and a policy-violating password, or
\* one with a free new email and a taken username, were refused
C11_Witness ==
    /\ RejectedByCheck(resp)
    /\ resp.req.op = "update_user_me"
    /\ resp.caller # NoUser
    /\ resp.req.fields_set \in {{"email", "password"}, {"email", "username"}}
    /\ resp.req.email # resp.caller.email
    /\ get_by_email(users, resp.req.email) = NoUser

(***************************************************************************)
(* C12.  Signup with an email some account holds fails with DuplicateEmail;*)
(* signup with a free email and a username some account holds fails with   *)
(* DuplicateUsername.  Neither creates an account.  The email conflict is   *)
(* reported when the username is taken too, and both are reported before    *)
(* a violation of the password policy.                                      *)
(***************************************************************************)
DuplicateEmail(r) ==
    r.status = HTTP_400_BAD_REQUEST /\ r.detail = <<MSG_DUP_EMAIL>>

DuplicateUsername(r) ==
    r.status = HTTP_400_BAD_REQUEST /\ r.detail = <<MSG_DUP_USERNAME>>

C12_SignupDuplicates ==
    [][resp'.req.op = "signup" =>
        LET email_held == \E u \in users : u.email = resp'.req.email
            username_held == \E u \in users : u.username = resp'.req.username
        IN  /\ email_held => DuplicateEmail(resp') /\ users' = users
            /\ (~email_held /\ username_held) =>
                   DuplicateUsername(resp') /\ users' = users]_vars

\* A signup whose email and username are both held and whose password
\* violates the policy was answered DuplicateEmail
C12_Witness ==
    /\ resp.req.op = "signup"
    /\ DuplicateEmail(resp)
    /\ \E u \in users : u.email = resp.req.email
    /\ \E u \in users : u.username = resp.req.username
    /\ PasswordValidationError(resp.req.password)

(***************************************************************************)
(* C13.  A successful signup creates one account, active and not elevated  *)
(* when the candidate leaves these flags out and with the candidate's      *)
(* values when it gives them; the returned record is that account without  *)
(* a password and without a hash.                                          *)
(***************************************************************************)
C13_SignupFlags ==
    [][(resp'.req.op = "signup" /\ resp'.status = HTTP_200_OK) =>
        LET body == resp'.req
            active == IF "is_active" \in body.fields_set
                      THEN body.is_active ELSE TRUE
            elevated == IF "is_superuser" \in body.fields_set
                        THEN body.is_superuser ELSE FALSE
        IN  \E u \in users' \ users :
                /\ users' = users \cup {u}
                /\ u.email = body.email /\ u.username = body.username
                /\ u.is_active = active
                /\ u.is_superuser = elevated
                /\ resp'.user.id = u.id
                /\ resp'.user.is_active = active
                /\ resp'.user.is_superuser = elevated
                /\ DOMAIN resp'.user = DOMAIN u \ {"hashed_password"}
                /\ "password" \notin DOMAIN resp'.user]_vars

\* Signups without the flags, and with flags that make the account inactive
\* or elevated, have succeeded
C13_Witness ==
    /\ resp.req.op = "signup"
    /\ resp.status = HTTP_200_OK
    /\ \E u \in users : ~u.is_active /\ u.is_superuser
    /\ \E u \in users :
        /\ u.id = resp.user.id
        /\ "is_active" \notin resp.req.fields_set
        /\ ~resp.req.is_active
        /\ u.is_active

(***************************************************************************)
(* C14.  An admin-only operation (read_users, delete_user) called with the *)
(* valid token of an active account that is not elevated answers Forbidden *)
(* and changes no account.  Called with the valid token of an active       *)
(* elevated account it is authorised and does its work: read_users         *)
(* succeeds, delete_user removes the target account and succeeds (a        *)
(* target id that names no account is answered NotFound).                  *)
(***************************************************************************)
C14_AdminOpsNeedElevation ==
    [][(/\ resp'.req.op \in AdminOps
        /\ ValidToken(resp'.req.tok, now)
        /\ SubjectIn(users, resp'.req.tok) # NoUser
        /\ SubjectIn(users, resp'.req.tok).is_active)
       => LET caller == SubjectIn(users, resp'.req.tok)
              target == get(users, resp'.req.user_id)
          IN  IF ~caller.is_superuser
              THEN /\ resp'.status = HTTP_403_FORBIDDEN
                   /\ resp'.detail = <<MSG_PRIVILEGES>>
                   /\ users' = users
              ELSE IF resp'.req.op = "read_users"
              THEN resp'.status = HTTP_200_OK /\ users' = users
              ELSE IF target # NoUser
              THEN resp'.status = HTTP_200_OK /\ users' = users \ {target}
              ELSE resp'.status = HTTP_404_NOT_FOUND /\ users' = users]_vars

\* An active account that is not elevated was refused the deletion of an
\* existing account, while an elevated account exists
C14_Witness ==
    /\ resp.req.op = "delete_user"
    /\ Forbidden
    /\ ValidToken(resp.req.tok, now)
    /\ SubjectIn(users, resp.req.tok).is_active
    /\ ~SubjectIn(users, resp.req.tok).is_superuser
    /\ get(users, resp.req.user_id) # NoUser

\* An active elevated account deleted another account
C14_WitnessElevated ==
    /\ resp.req.op = "delete_user"
    /\ Succeeded
    /\ resp.caller.is_active /\ resp.caller.is_superuser
    /\ resp.user.id # resp.caller.id
    /\ get(users, resp.user.id) = NoUser

(***************************************************************************)
(* C15.  An update changes only the fields its patch carries: the id of    *)
(* the account and every field the patch leaves out (email, username, full *)
(* name, password hash, active, elevated) keep their values, and no other  *)
(* account changes.                                                        *)
(***************************************************************************)
\* The columns a request of an update operation may write
PatchColumns(req) ==
    IF req.op = "change_password" THEN {"hashed_password"}
    ELSE (req.fields_set \ {"password"})
         \cup (IF "password" \in req.fields_set
               THEN {"hashed_password"} ELSE {})

C15_UpdateFrame ==
    [][resp'.req.op \in {"update_user_me", "change_password"} =>
        /\ {u.id : u \in users'} = {u.id : u \in users}
        /\ \A u \in users :
            LET v == get(users', u.id)
            IN  /\ u.id # resp'.caller.id => v = u
                /\ \A f \in DOMAIN u \ PatchColumns(resp'.req) : v[f] = u[f]]_vars

\* A patch of the username alone was applied to an account that has a full
\* name, while another account exists
C15_Witness ==
    /\ resp.req.op = "update_user_me"
    /\ Succeeded
    /\ resp.req.fields_set = {"username"}
    /\ resp.user.username # resp.caller.username
    /\ resp.user.full_name # Null
    /\ Cardinality(users) = 2

(***************************************************************************)
(* C16.  After an update whose patch carries a policy-valid password p     *)
(* that the current hash does not verify, the stored hash of the account   *)
(* is a hash of p: it verifies p, it verifies no password the old hash     *)
(* verified, and the row has no column holding the plaintext.              *)
(***************************************************************************)
Passwords == {PW_GOOD, PW_OTHER, PW_WEAK, PW_SHORT}

C16_PasswordUpdateRehashes ==
    [][(/\ resp'.req.op \in {"update_user_me", "change_password"}
        /\ resp'.status = HTTP_200_OK
        /\ \/ resp'.req.op = "change_password"
           \/ "password" \in resp'.req.fields_set \ resp'.req.nulls
        /\ PassesPolicy(resp'.req.password)
        /\ ~verify_password(resp'.req.password,
                            resp'.caller.hashed_password))
       => LET old == get(users, resp'.caller.id)
              new == get(users', resp'.caller.id)
              p == resp'.req.password
          IN  /\ old = resp'.caller
              /\ new # NoUser
              /\ verify_password(p, new.hashed_password)
              /\ \A q \in Passwords :
                    verify_password(q, old.hashed_password)
                        => ~verify_password(q, new.hashed_password)
              /\ \E salt \in Salts :
                    new.hashed_password = get_password_hash(p, salt)
              /\ DOMAIN new = DOMAIN old
              /\ "password" \notin DOMAIN new]_vars

\* A self-update with a new policy-valid password alone was applied
C16_Witness ==
    /\ resp.req.op = "update_user_me"
    /\ Succeeded
    /\ resp.req.fields_set = {"password"}
    /\ resp.req.nulls = {}
    /\ verify_password(PW_GOOD, resp.caller.hashed_password)
    /\ verify_password(PW_OTHER, get(users, resp.caller.id).hashed_password)
    /\ ~verify_password(PW_GOOD, get(users, resp.caller.id).hashed_password)

(***************************************************************************)
(* C17.  change_password replaces the stored hash only if the submitted    *)
(* current password verifies against the caller's stored hash.  When it    *)
(* does not verify, the request fails with the current-password error and  *)
(* no hash changes, whatever the new password is.                          *)
(***************************************************************************)
C17_CurrentPasswordRequired ==
    [][resp'.req.op = "change_password" =>
        LET caller == SubjectIn(users, resp'.req.tok)
            verified ==
                /\ caller # NoUser
                /\ verify_password(resp'.req.current_password,
                                   caller.hashed_password)
        IN  /\ \A u \in users :
                get(users', u.id).hashed_password # u.hashed_password
                    => u = caller /\ verified
            /\ (/\ ValidToken(resp'.req.tok, now)
                /\ caller # NoUser
                /\ caller.is_active
                /\ ~verified)
                   => /\ resp'.status = HTTP_400_BAD_REQUEST
                      /\ resp'.detail = <<MSG_CURRENT_PASSWORD>>
                      /\ users' = users]_vars

\* A change to a policy-valid new password was refused because the current
\* password submitted with it does not verify
C17_Witness ==
    /\ resp.req.op = "change_password"
    /\ resp.status = HTTP_400_BAD_REQUEST
    /\ resp.detail = <<MSG_CURRENT_PASSWORD>>
    /\ PassesPolicy(resp.req.password)
    /\ ~verify_password(resp.req.current_password, resp.caller.hashed_password)
    /\ get(users, resp.caller.id) = resp.caller

\* A change with the right current password replaced the hash
C17_WitnessChanged ==
    /\ resp.req.op = "change_password"
    /\ Succeeded
    /\ verify_password(resp.req.current_password, resp.caller.hashed_password)
    /\ get(users, resp.caller.id).hashed_password # resp.caller.hashed_password

(***************************************************************************)
(* C18.  Every account enters existence in the active state and becomes    *)
(* inactive only through a later update.                                   *)
(* Refuted as stated: signup stores the is_active flag of the candidate,   *)
(* so an account can enter existence inactive.                             *)
(***************************************************************************)
C18_EntersActive ==
    [][\A v \in users' :
        LET u == get(users, v.id)
        IN  /\ u = NoUser => v.is_active
            /\ (u # NoUser /\ u.is_active /\ ~v.is_active)
                   => resp'.req.op = "update_user_me"]_vars

(***************************************************************************)
(* C18, amended.  An account enters existence only through a successful    *)
(* signup, in the state the candidate gives: active unless the candidate   *)
(* says is_active = false.  Its active flag changes afterwards only from   *)
(* active to inactive, through its own successful self-update carrying     *)
(* is_active; no operation reactivates it.  It leaves existence only       *)
(* through delete_user called by an elevated account.                      *)
(***************************************************************************)
C18_Lifecycle ==
    [][\A id \in {x.id : x \in users \cup users'} :
        LET u == get(users, id)
            v == get(users', id)
            req == resp'.req
        IN  /\ (u = NoUser /\ v # NoUser) =>
                /\ req.op = "signup"
                /\ resp'.status = HTTP_200_OK
                /\ v.is_active = IF "is_active" \in req.fields_set
                                 THEN req.is_active ELSE TRUE
            /\ (u # NoUser /\ v # NoUser /\ u.is_active # v.is_active) =>
                /\ req.op = "update_user_me"
                /\ resp'.status = HTTP_200_OK
                /\ resp'.caller = u
                /\ "is_active" \in req.fields_set
                /\ u.is_active /\ ~v.is_active
            /\ (u # NoUser /\ v = NoUser) =>
                /\ req.op = "delete_user"
                /\ resp'.status = HTTP_200_OK
                /\ req.user_id = id
                /\ resp'.caller.is_superuser]_vars

\* An account was created inactive, while another account has deactivated
\* itself
C18_Witness ==
    /\ resp.req.op = "signup"
    /\ Succeeded
    /\ ~resp.user.is_active
    /\ \E u \in users : u.id # resp.user.id /\ ~u.is_active

(***************************************************************************)
(* C19.  A token issued for an account resolves to that account on every   *)
(* token check made before its expiry while the account exists: any number *)
(* of times, alongside other tokens of the same account, and whatever the  *)
(* account's email, username and password have become.  A check consumes   *)
(* nothing and no operation takes a token out of circulation.              *)
(***************************************************************************)
\* The token resolves, at instant t, to the account whose id is its subject
ResolvesToSubject(table, token, t) ==
    LET r == get_current_user(table, token, t)
    IN  /\ r.status = HTTP_200_OK
        /\ r.user.id = IntOfStr(token.sub)
        /\ r.user \in table

C19_TokenKeepsResolving ==
    [][/\ \A token \in issued' :
            (~(token.exp < now') /\ SubjectIn(users', token) # NoUser)
                => ResolvesToSubject(users', token, now')
       /\ issued \subseteq issued'
       /\ (/\ resp'.req.op = "test_token"
           /\ resp'.req.tok \in issued
           /\ ~(resp'.req.tok.exp < now)
           /\ SubjectIn(users, resp'.req.tok) # NoUser)
              => /\ resp'.status = HTTP_200_OK
                 /\ resp'.user = schemas_User(SubjectIn(users, resp'.req.tok))
                 /\ UNCHANGED <<users, issued>>]_vars

\* The older of two unexpired tokens of one account was checked again after
\* the account changed its email and its password
C19_Witness ==
    /\ resp.req.op = "test_token"
    /\ Succeeded
    /\ \E other \in issued :
        /\ other.sub = resp.req.tok.sub
        /\ resp.req.tok.exp < other.exp
        /\ ~(resp.req.tok.exp < now)
    /\ resp.user.email = "b@x.com"
    /\ resp.user.id = 1
    /\ verify_password(PW_OTHER, get(users, resp.user.id).hashed_password)

(***************************************************************************)
(* C20.  A token issued at instant T for subject s with lifetime t > 0     *)
(* carries the expiry T + t.  It verifies with subject s at every instant  *)
(* before T + t, and the resolver answers Unauthenticated at every instant *)
(* after T + t.                                                            *)
(***************************************************************************)
C20_TokenLifetime ==
    [][/\ (resp'.req.op = "login" /\ resp'.status = HTTP_200_OK) =>
            /\ ACCESS_TOKEN_EXPIRE_MINUTES > 0
            /\ resp'.access_token.exp = now + ACCESS_TOKEN_EXPIRE_MINUTES
            /\ SubjectIn(users, resp'.access_token) =
                   authenticate(users, resp'.req.email, resp'.req.password)
       /\ (/\ resp'.req.op = "test_token"
           /\ resp'.req.tok \in issued
           /\ SubjectIn(users, resp'.req.tok) # NoUser)
              => /\ now < resp'.req.tok.exp =>
                        /\ resp'.status = HTTP_200_OK
                        /\ resp'.user.id = IntOfStr(resp'.req.tok.sub)
                 /\ now > resp'.req.tok.exp =>
                        /\ resp'.status = HTTP_401_UNAUTHORIZED
                        /\ resp'.detail = <<MSG_CREDENTIALS>>]_vars

\* A token was refused after its expiry, its account still existing
C20_Witness ==
    /\ resp.req.op = "test_token"
    /\ resp.req.tok \in issued
    /\ now > resp.req.tok.exp
    /\ SubjectIn(users, resp.req.tok) # NoUser
    /\ Unauthenticated

\* A token was accepted half a lifetime after its issue
C20_WitnessBefore ==
    /\ resp.req.op = "test_token"
    /\ resp.req.tok \in issued
    /\ now = resp.req.tok.exp - HalfLife
    /\ Succeeded

(***************************************************************************)
(* C21.  The resolver accepts a token only if it was signed with the       *)
(* process secret under the configured algorithm and has not been altered  *)
(* since: a well-formed token signed with another secret, signed with      *)
(* another algorithm or altered after signing is answered Unauthenticated  *)
(* with the uniform message, and nothing changes.                          *)
(***************************************************************************)
ProperlySigned(token) ==
    /\ token.fmt = "jwt"
    /\ token.key = SECRET_KEY
    /\ token.alg = ALGORITHM
    /\ ~SignatureMismatch(token)

C21_OnlyProperlySigned ==
    [][GatedRequest =>
        /\ resp'.status # HTTP_401_UNAUTHORIZED
               => ProperlySigned(resp'.req.tok)
        /\ (resp'.req.tok.fmt = "jwt" /\ ~ProperlySigned(resp'.req.tok))
               => /\ resp'.status = HTTP_401_UNAUTHORIZED
                  /\ resp'.detail = <<MSG_CREDENTIALS>>
                  /\ users' = users]_vars

\* A token signed for another subject and altered to name an existing
\* account was refused
C21_Witness ==
    /\ resp.req.op \in GatedOps
    /\ resp.req.tok = AlteredSubjectToken
    /\ SubjectIn(users, resp.req.tok) # NoUser
    /\ Unauthenticated
    /\ resp.detail = <<MSG_CREDENTIALS>>

(***************************************************************************)
(* C22.  delete(id) on an existing account removes exactly that account    *)
(* and returns its record; afterwards the lookups by its id, its email and *)
(* its username find nothing and every other account is unchanged.         *)
(* delete(id) on an id that names no account returns not-found and changes *)
(* nothing.                                                                *)
(***************************************************************************)
C22_DeleteExactlyOne ==
    [][(/\ resp'.req.op = "delete_user"
        /\ get_current_superuser(users, resp'.req.tok, now).status
               = HTTP_200_OK)
       => LET id == resp'.req.user_id
              obj == get(users, id)
              res == CRUDBase_delete(users, id)
          IN  /\ res.row = obj
              /\ users' = res.table
              /\ obj # NoUser =>
                    /\ resp'.status = HTTP_200_OK
                    /\ resp'.user = schemas_User(obj)
                    /\ obj \notin users'
                    /\ get(users', id) = NoUser
                    /\ get_by_email(users', obj.email) = NoUser
                    /\ get_by_username(users', obj.username) = NoUser
                    /\ \A u \in users : u # obj => u \in users'
                    /\ users' \subseteq users
              /\ obj = NoUser =>
                    /\ resp'.status = HTTP_404_NOT_FOUND
                    /\ resp'.detail = <<MSG_NOT_FOUND>>
                    /\ users' = users]_vars

\* An account was deleted and its record returned while another remains
C22_Witness ==
    /\ resp.req.op = "delete_user"
    /\ Succeeded
    /\ resp.user.id = resp.req.user_id
    /\ resp.user.id # resp.caller.id
    /\ get(users, resp.req.user_id) = NoUser
    /\ users # {}

\* A delete of an id that names no account was answered not-found
C22_WitnessNotFound ==
    /\ resp.req.op = "delete_user"
    /\ resp.status = HTTP_404_NOT_FOUND
    /\ users # {}

(***************************************************************************)
(* C23.  validate(p) returns the empty list exactly when p has at least 8  *)
(* characters and contains at least one upper-case letter, at least one    *)
(* lower-case letter and at least one digit; otherwise it returns one      *)
(* message per violated rule, so the number of messages is the number of   *)
(* rules p violates.                                                       *)
(* Refuted: the letter rules look for A-Z and a-z only, so a password      *)
(* whose letters are all outside ASCII is reported to have no upper-case   *)
(* and no lower-case letter, while a digit outside ASCII counts as a digit.*)
(***************************************************************************)
UpperCaseLetters == UpperCase \cup {"U+00C9"}
LowerCaseLetters == LowerCase \cup {"U+00E9"}
DigitCharacters == Digits \cup {"U+0663"}

ViolatedRules(p) ==
    {rule \in {"length", "upper", "lower", "digit"} :
        \/ rule = "length" /\ Len(p) < 8
        \/ rule = "upper" /\ ~HasChar(p, UpperCaseLetters)
        \/ rule = "lower" /\ ~HasChar(p, LowerCaseLetters)
        \/ rule = "digit" /\ ~HasChar(p, DigitCharacters)}

C23_ValidateMatchesPolicy ==
    resp.req.op = "validate_password" =>
        /\ resp.detail = <<>> <=> ViolatedRules(resp.req.password) = {}
        /\ Len(resp.detail) = Cardinality(ViolatedRules(resp.req.password))

\* The same statement over ASCII passwords, where it holds
C23_AsciiPolicy ==
    (/\ resp.req.op = "validate_password"
     /\ ~HasChar(resp.req.password, NonAscii))
    => /\ resp.detail = <<>> <=> ViolatedRules(resp.req.password) = {}
       /\ Len(resp.detail) = Cardinality(ViolatedRules(resp.req.password))

(***************************************************************************)
(* C24.  authenticate(email, password) returns the account exactly when an *)
(* account with that email exists and the password verifies against its    *)
(* stored hash, whether the account is active or not; otherwise it returns *)
(* the same no-match value for a missing account and for a wrong password. *)
(* It never modifies an account.                                           *)
(***************************************************************************)
C24_AuthenticateMatches ==
    [][resp'.req.op = "login"
       => LET email == resp'.req.email
              password == resp'.req.password
              holders == {u \in users : u.email = email}
              matches ==
                  {u \in holders :
                      verify_password(password, u.hashed_password)}
              result == authenticate(users, email, password)
          IN  /\ matches # {} => /\ result \in matches
                                 /\ resp'.status # HTTP_401_UNAUTHORIZED
              /\ matches = {} => /\ result = NoUser
                                 /\ resp'.status = HTTP_401_UNAUTHORIZED
                                 /\ resp'.detail = <<MSG_LOGIN>>
              /\ users' = users]_vars

\* The password of an inactive account was submitted and matched
C24_Witness ==
    /\ resp.req.op = "login"
    /\ InactiveAccount
    /\ LET user == get_by_email(users, resp.req.email)
       IN  /\ user # NoUser
           /\ ~user.is_active
           /\ verify_password(resp.req.password, user.hashed_password)
           /\ authenticate(users, resp.req.email, resp.req.password) = user

(***************************************************************************)
(* C25.  Signup with a fresh email and a fresh username succeeds whatever  *)
(* the length of the password: a password shorter than 8 characters, such  *)
(* as "12", is accepted and the account is created.                        *)
(* Refuted: create validates the password before it stores anything.       *)
(***************************************************************************)
FreshSignup ==
    /\ resp'.req.op = "signup"
    /\ resp'.req.email # Null
    /\ resp'.req.username # Null
    /\ \A u \in users :
          u.email # resp'.req.email /\ u.username # resp'.req.username

C26_InactiveStaysInactive ==
    [][\A u \in users :
        LET v == get(users', u.id)
        IN  /\ ~u.is_active => (v = NoUser \/ ~v.is_active)
            /\ (v # NoUser /\ v.is_active # u.is_active) =>
                  /\ resp'.req.op = "update_user_me"
                  /\ resp'.status = HTTP_200_OK
                  /\ ValidToken(resp'.req.tok, now)
                  /\ SubjectIn(users, resp'.req.tok) = u
                  /\ resp'.caller.id = u.id
                  /\ resp'.caller.is_active]_vars

\* A request to be active, resolved while its account was active, was
\* written after the account had deactivated itself, and left it inactive
C26_Witness ==
    /\ resp.req.op = "update_user_me"
    /\ resp.req.fields_set = {"is_active"}
    /\ resp.req.is_active
    /\ Succeeded
    /\ resp.caller.is_active
    /\ ~get(users, resp.caller.id).is_active

\* An inactive account asked, with its own unexpired token, to be active
\* again and was refused
C26_WitnessRefused ==
    /\ resp.req.op = "update_user_me"
    /\ resp.req.fields_set = {"is_active"}
    /\ resp.req.is_active
    /\ ValidToken(resp.req.tok, now)
    /\ SubjectIn(users, resp.req.tok) # NoUser
    /\ ~SubjectIn(users, resp.req.tok).is_active
    /\ InactiveAccount

(***************************************************************************)
(* C27.  The elevated flag of an account never changes after creation: no  *)
(* self-update, password change, login or token check turns an account     *)
(* that is not elevated into an elevated one, or the reverse, whatever the *)
(* request body says.                                                      *)
(***************************************************************************)
C27_ElevationFixed ==
    [][\A u \in users :
        LET v == get(users', u.id)
        IN  v # NoUser => v.is_superuser = u.is_superuser]_vars

\* An active account sent is_superuser = true in a self-update, which
\* succeeded and left the account as it was
C27_Witness ==
    /\ resp.req.op = "update_user_me"
    /\ resp.req.fields_set = {"is_superuser"}
    /\ resp.req.is_superuser
    /\ Succeeded
    /\ ~resp.caller.is_superuser
    /\ ~resp.user.is_superuser
    /\ get(users, resp.caller.id) = resp.caller

C28_WitnessEmail ==
    /\ resp.req.op = "update_user_me"
    /\ "email" \in resp.req.nulls
    /\ resp.caller # NoUser
    /\ resp.status = HTTP_500_INTERNAL_SERVER_ERROR
    /\ get(users, resp.caller.id) = resp.caller

\* A signup with a null email was refused
C28_WitnessSignup ==
    /\ resp.req.op = "signup"
    /\ resp.req.email = Null
    /\ resp.status = HTTP_422_UNPROCESSABLE_ENTITY

(***************************************************************************)
(* C29.  For every interleaving of concurrent admin delete requests for    *)
(* the same account id, exactly one request reports success, with the      *)
(* deleted record, and every other request reports NotFound; no request    *)
(* reports success without a record or ends in an internal error.          *)
(* Refuted: the handler's lookup, the lookup inside delete and the commit  *)
(* are separate statements, and another request's delete can fall between  *)
(* them.                                                                   *)
(***************************************************************************)
\* A step in which a delete request that passed the role check is answered
DeleteAnswered ==
    \E w \in Workers :
        /\ pending[w].pc \in {"delete_get", "delete_crud_get", "delete_commit"}
        /\ pending'[w].pc = "idle"

C29_OneDeleteSucceeds ==
    [][DeleteAnswered =>
        LET id == resp'.req.user_id
            removed == get(users, id) # NoUser /\ get(users', id) = NoUser
        IN  /\ resp'.status \in {HTTP_200_OK, HTTP_404_NOT_FOUND}
            /\ resp'.status = HTTP_200_OK <=> removed
            /\ resp'.status = HTTP_200_OK =>
                  resp'.user = schemas_User(get(users, id))]_vars

\* A delete request is answered with success for a row another request has
\* already deleted
C29_SecondSuccess ==
    [][DeleteAnswered =>
        (resp'.status = HTTP_200_OK
            => get(users, resp'.req.user_id) # NoUser)]_vars

\* A delete request ends in an internal error
C29_NoInternalError ==
    [][DeleteAnswered => resp'.status # HTTP_500_INTERNAL_SERVER_ERROR]_vars

(***************************************************************************)
(* C30.  Self-update and password change modify only the account that the  *)
(* subject of the presented token names: after either operation, whether   *)
(* it succeeded or not, every field of every other account is unchanged.   *)
(***************************************************************************)
C30_OnlySubjectModified ==
    [][resp'.req.op \in {"update_user_me", "change_password"} =>
        LET subject == SubjectIn(users, resp'.req.tok)
        IN  /\ \A u \in users : u.id # subject.id => u \in users'
            /\ \A v \in users' : v.id # subject.id => v \in users
            /\ Cardinality(users') = Cardinality(users)]_vars

\* The second account changed its password while the first account exists
C30_Witness ==
    /\ resp.req.op = "change_password"
    /\ Succeeded
    /\ resp.caller.id = 2
    /\ SubjectIn(users, resp.req.tok).id = 2
    /\ get(users, 2).hashed_password # resp.caller.hashed_password
    /\ get(users, 1) # NoUser

====
